---- MODULE Spec2Model ----
(***************************************************************************)
(* A model of resampler.c (tsl-sdr): the sample-buffer pool, the fixed-    *)
(* point DC blocker and the streaming loop process_fir(), followed by the  *)
(* tail of main().  The polyphase resampler, the two FIFOs and the         *)
(* keep-running signal are the environment: every value they hand back is  *)
(* drawn with \E from the values the call can return.                      *)
(***************************************************************************)
EXTENDS Integers, Sequences, FiniteSets, TLC

\* ------------------------------------------------------------------ bounds
\* Iterations of the do/while loop the model follows.
MaxIter == 2
\* Most samples the resampler stub produces in one polyphase_fir_process call.
MaxNew == 2
\* Longest block, and number of blocks, the DC blocker harness applies.
MaxBlock == 2
MaxApply == 2
\* Largest interpolation or decimation factor given on the command line.
MaxFactor == 1
\* Most taps in the filter file.
MaxTaps == 1
\* A constant-level stretch of the stream holds 2 ^ SettleLog samples.
SettleLog == 17

\* ------------------------------------------------------- program constants
NR_SAMPLES == 1024
SizeofInt16 == 2
Q_15_SHIFT == 15
NULL == 0

\* Samples the resampler stub writes into the output window.
SampleVals == {0, 1}
\* Samples the DC blocker harness feeds to dc_blocker_apply.
DcSampleVals == {-1, 0, 1}

VARIABLES
    pc,           \* position of the single thread
    running,      \* the keep-running signal app_running() reads
    dc_blocker,   \* option -b
    ret,          \* process_fir: ret
    exit_code,    \* main: ret
    op_ret,       \* process_fir: op_ret
    read_buf,     \* process_fir: read_buf (NULL or a buffer id)
    new_samples,  \* process_fir: new_samples
    full,         \* process_fir: full
    output_buf,   \* the static output window (its first MaxNew entries)
    blck,         \* process_fir: struct dc_blocker blck
    bufs,         \* the heap: buffer id -> struct sample_buf
    queue,        \* buffers the resampler holds, oldest first
    iter,         \* iterations started
    ever_not_full,\* history: some polyphase_fir_full query reported false
    nreads,       \* history: read() calls on in_fifo
    npush,        \* history: polyphase_fir_push_sample_buf calls
    nprocess,     \* history: polyphase_fir_process calls
    nwrites,      \* history: write() calls on out_fifo
    nwrites_ok,   \* history: write() calls that returned >= 0
    nsampled,     \* history: app_running() calls
    produced,     \* history: the samples the last process call produced
    dc_in,        \* harness: the block last handed to dc_blocker_apply
    dc_prev,      \* harness: the blocker state before that call
    napplied,     \* harness: dc_blocker_apply calls
    stream_in,    \* harness: every sample handed to dc_blocker_apply, in order
    stream_out,   \* harness: every sample dc_blocker_apply stored back
    dc_ovf,       \* harness: some int32_t operation of the blocker overflowed
    interpolate,  \* option -I
    decimate,     \* option -D
    filter_coeffs_f, \* _set_options: the taps read from the filter file
    filter_coeffs,   \* the Q.15 taps handed to polyphase_fir_new
    panic_at         \* history: the check that panicked ("" while none has)

vars == <<pc, running, dc_blocker, ret, exit_code, op_ret, read_buf,
          new_samples, full, output_buf, blck, bufs, queue, iter,
          ever_not_full, nreads, npush, nprocess, nwrites, nwrites_ok,
          nsampled, produced, dc_in, dc_prev, napplied, stream_in,
          stream_out, dc_ovf, interpolate, decimate, filter_coeffs_f,
          filter_coeffs, panic_at>>

harness_vars == <<dc_in, dc_prev, napplied>>

blocker_history == <<stream_in, stream_out, dc_ovf>>

option_vars == <<interpolate, decimate, filter_coeffs_f, filter_coeffs>>

\* ------------------------------------------------------------- arithmetic
\* TLC's integers are 32 bits wide, so int32_t arithmetic is written
\* so that no intermediate value leaves that range.  Signed overflow wraps
\* (two's complement), which is what the build produces: the compiled
\* dc_blocker_apply gives the same values with and without -fwrapv.
MaxInt32 == 2147483647
MinInt32 == (-2147483647) - 1

\* a + b on int32_t, wrapping (two's complement) when it does not fit
Add32[a \in Int, b \in Int] ==
    IF a > 0 /\ b > 0 /\ a > MaxInt32 - b
    THEN ((a - MaxInt32) - 1) + ((b - MaxInt32) - 1)
    ELSE IF a < 0 /\ b < 0 /\ a < MinInt32 - b
    THEN ((a + MaxInt32) + 1) + ((b + MaxInt32) + 1)
    ELSE a + b

\* -a on int32_t
Neg32[a \in Int] == IF a = MinInt32 THEN MinInt32 ELSE 0 - a

\* a - b on int32_t
Sub32[a \in Int, b \in Int] ==
    IF b = MinInt32 THEN Add32[Add32[a, MaxInt32], 1] ELSE Add32[a, 0 - b]

\* a * b on int32_t, wrapping: double and add
Mul32[a \in Int, b \in Int] ==
    IF b = 0 THEN 0
    ELSE IF b = MinInt32 THEN Mul32[Add32[a, a], b \div 2]
    ELSE IF b < 0 THEN Neg32[Mul32[a, Neg32[b]]]
    ELSE IF b % 2 = 1 THEN Add32[a, Mul32[Add32[a, a], b \div 2]]
    ELSE Mul32[Add32[a, a], b \div 2]

\* A value stored into an int16_t object keeps its low 16 bits.
Wrap16(v) == LET m == v % 65536 IN IF m >= 32768 THEN m - 65536 ELSE m

\* samples[i] << Q_15_SHIFT: an int16_t promoted to int, times 2^15 (it fits)
Shl(x, n) == x * (2 ^ n)

\* acc >> Q_15_SHIFT on a signed int: an arithmetic shift
Sar(x, n) == x \div (2 ^ n)

\* a + b does not fit int32_t (signed overflow)
AddOverflows(a, b) ==
    \/ (a > 0 /\ b > 0 /\ a > MaxInt32 - b)
    \/ (a < 0 /\ b < 0 /\ a < MinInt32 - b)

\* a - b does not fit int32_t
SubOverflows(a, b) ==
    IF b = MinInt32 THEN a >= 0 ELSE AddOverflows(a, 0 - b)

\* a * b does not fit int32_t, for a > 0: the wrapped product is not a * b
MulOverflowsPos(a, b) ==
    (Mul32[a, b] % a # 0) \/ (Mul32[a, b] \div a # b)

\* a * b does not fit int32_t
MulOverflows(a, b) ==
    IF a = 0 \/ b = 0 THEN FALSE
    ELSE IF a > 0 THEN MulOverflowsPos(a, b)
    ELSE IF b > 0 THEN MulOverflowsPos(b, a)
    ELSE a = MinInt32 \/ b = MinInt32 \/ MulOverflowsPos(0 - a, 0 - b)

\* ------------------------------------------------------------ buffer pool
SampleBufBytes == NR_SAMPLES * SizeofInt16

\* Memory no sample_buf lives in.
NoBuf == [st |-> "unalloc", refcount |-> 0, sample_type |-> "UNKNOWN",
          sample_buf_bytes |-> 0, nr_samples |-> 0, release |-> "NULL"]

\* The struct _alloc_sample_buf fills in.
NewSampleBuf == [st |-> "live", refcount |-> 0,
                 sample_type |-> "COMPLEX_INT_16",
                 sample_buf_bytes |-> SampleBufBytes,
                 nr_samples |-> 0, release |-> "_free_sample_buf"]

\* _free_sample_buf: TFREE(buf); the memory is gone.
FreeSampleBuf(b) == [b EXCEPT !.st = "freed"]

BufIds == 1..MaxIter
Allocated == {i \in BufIds : bufs[i].st # "unalloc"}
FreshId == CHOOSE i \in BufIds : bufs[i].st = "unalloc"
                                 /\ \A j \in BufIds : j < i => bufs[j].st # "unalloc"

\* ------------------------------------------------------------- DC blocker
\* blck.p with 0.9999 in place of 1.0 - 0.9999
DcPoleComplement == Wrap16((9999 * (2 ^ Q_15_SHIFT)) \div 10000)

\* blck.p = (int16_t)((1.0 - 0.9999) * (double)(1 << Q_15_SHIFT))
DcPole == Wrap16(((10000 - 9999) * (2 ^ Q_15_SHIFT)) \div 10000)

\* memset(&blck, 0, sizeof(blck)); blck.p = ...
DcInit == [p |-> DcPole, x_n_1 |-> 0, y_n_1 |-> 0, f |-> 0, acc |-> 0]

\* blocker->p * blocker->y_n_1 with the operator mistyped
FeedbackSum(b) == Add32[b.p, b.y_n_1]

\* blocker->p * blocker->y_n_1
Feedback(b) == Mul32[b.p, b.y_n_1]

\* The values a struct dc_blocker and a block of int16_t samples can hold.
DcStates == [p : Int, x_n_1 : Int, y_n_1 : Int, f : Int, acc : Int]
SampleBlocks == Seq(Int)

\* One pass of the for loop body: the new state and the sample stored back.
DcStep[b \in DcStates, s \in Int] ==
    LET acc1 == Sub32[b.acc, b.x_n_1]
        x    == Shl(s, Q_15_SHIFT)
        acc2 == Add32[acc1, Sub32[x, Feedback(b)]]
        y    == Sar(acc2, Q_15_SHIFT)
    IN  [b   |-> [b EXCEPT !.acc = acc2, !.x_n_1 = x, !.y_n_1 = y],
         out |-> Wrap16(y)]

\* One pass of the for loop body: does one of its int32_t operations
\* (acc - x_n_1, p * y_n_1, x_n_1 - p * y_n_1, acc + ...) overflow
DcStepOverflows[b \in DcStates, s \in Int] ==
    LET x  == Shl(s, Q_15_SHIFT)
        fb == Feedback(b)
    IN  \/ SubOverflows(b.acc, b.x_n_1)
        \/ x < MinInt32 \/ x > MaxInt32
        \/ MulOverflows(b.p, b.y_n_1)
        \/ SubOverflows(x, fb)
        \/ AddOverflows(Sub32[b.acc, b.x_n_1], Sub32[x, fb])

\* The for loop from sample i on: does one of its passes overflow
DcApplyOverflows[b \in DcStates, samples \in SampleBlocks, i \in Nat, n \in Nat] ==
    IF i > n THEN FALSE
    ELSE \/ DcStepOverflows[b, samples[i]]
         \/ DcApplyOverflows[DcStep[b, samples[i]].b, samples, i + 1, n]

\* The for loop of dc_blocker_apply from sample i on: entries past n are
\* left alone.
DcApplyFrom[b \in DcStates, samples \in SampleBlocks, i \in Nat, n \in Nat] ==
    IF i > n THEN [b |-> b, samples |-> samples]
    ELSE DcApplyFrom[DcStep[b, samples[i]].b,
                     [samples EXCEPT ![i] = DcStep[b, samples[i]].out],
                     i + 1, n]

\* dc_blocker_apply(blocker, samples, nr_samples), the blocker zeroed first
DcBlockerApplyZeroed(b, samples, n) == DcApplyFrom[DcInit, samples, 1, n]

\* dc_blocker_apply(blocker, samples, nr_samples)
DcBlockerApply(b, samples, n) == DcApplyFrom[b, samples, 1, n]

\* A blocker, and whether an operation has overflowed so far.
DcRunStates == [b : DcStates, ovf : BOOLEAN]

\* The for loop over 2 ^ j samples that all hold s (a stretch of the stream
\* at one level, window after window): the blocker it leaves, and whether
\* an operation overflowed on the way.
DcRun[w \in DcRunStates, s \in Int, j \in Nat] ==
    IF j = 0
    THEN [b |-> DcStep[w.b, s].b, ovf |-> w.ovf \/ DcStepOverflows[w.b, s]]
    ELSE DcRun[DcRun[w, s, j - 1], s, j - 1]

\* ------------------------------------------------------------ conditions
\* if (false == full), with the test inverted
FillNeededInverted(f) == f = TRUE

\* if (false == full)
FillNeeded(f) == f = FALSE

\* 0 >= (op_ret = read(...)), with the end of file let through
ReadFailedStrict(r) == 0 > r

\* 0 >= (op_ret = read(...))
ReadFailed(r) == 0 >= r

\* (1 & op_ret) != 0, with the wrong bit tested
PartialSampleBit1(r) == ((r \div 2) % 2) # 0

\* (1 & op_ret) != 0
PartialSample(r) == (r % 2) # 0

\* op_ret / sizeof(int16_t), with the division forgotten
BytesToSamplesNoDiv(r) == r

\* op_ret / sizeof(int16_t)
BytesToSamples(r) == r \div SizeofInt16

\* 0 == new_samples, never true
NoProgressNever(n) == FALSE

\* 0 == new_samples
NoProgress(n) == 0 = n

\* true == dc_blocker, with the option ignored
DcBlockingAlways(flag) == TRUE

\* true == dc_blocker
DcBlockingEnabled(flag) == flag = TRUE

\* 0 > (op_ret = write(...)), with the result ignored
WriteFailedIgnored(r) == FALSE

\* 0 > (op_ret = write(...))
WriteFailed(r) == 0 > r

\* What read(in_fifo, data_buf, count) can return: an error, end of file,
\* or a byte count up to count.
ReadResults(count) == {-1, 0, 1, 2, count - 1, count}

\* What write(out_fifo, output_buf, count) can return.
WriteResults(count) == (-1)..count

\* What polyphase_fir_process can leave in the window: n new samples.
ProcessResults == UNION {[1..n -> SampleVals] : n \in 0..MaxNew}

ZeroWindow == [i \in 1..MaxNew |-> 0]

\* ---------------------------------------------------------------- options
\* A double read from the filter file is held as the integer t * 2^15 *
\* TapUnit: the taps the model follows have two more fractional bits than
\* Q.15, so that t * q15 can fall between two integers.
TapUnit == 4

\* Taps in the filter file: -1.0, -1.5 * 2^-15, 1.5 * 2^-15, 0.5 and 1.0.
TapVals == {0 - (TapUnit * (2 ^ Q_15_SHIFT)), 0 - 6, 6,
            (TapUnit * (2 ^ Q_15_SHIFT)) \div 2, TapUnit * (2 ^ Q_15_SHIFT)}
TapFiles == UNION {[1..n -> TapVals] : n \in 1..MaxTaps}

\* double q15 = 1 << Q_15_SHIFT; filter_coeffs_f[i] * q15: scaling a double
\* by a power of two is exact, the product is the fraction t / TapUnit.
ScaleByQ15(t) == [num |-> t, den |-> TapUnit]

\* The integral part of a double: the fraction is discarded (toward zero).
IntegralPart(q) ==
    IF q.num >= 0 THEN q.num \div q.den ELSE 0 - ((0 - q.num) \div q.den)

\* The values an int16_t holds.
FitsInt16(v) == (0 - 32768) <= v /\ v <= 32767

\* (int16_t)d for a double d: its integral part when int16_t can hold it.
\* Otherwise the conversion is undefined; builds keep the low 16 bits of a
\* wider conversion, or saturate.
CastInt16(q) ==
    IF FitsInt16(IntegralPart(q))
    THEN {IntegralPart(q)}
    ELSE {Wrap16(IntegralPart(q)),
          IF IntegralPart(q) > 0 THEN 32767 ELSE 0 - 32768}

\* The for loop at the end of the coefficient load: the arrays filter_coeffs
\* can come out as.
ConvertTaps(taps) ==
    {c \in [1..Len(taps) ->
               UNION {CastInt16(ScaleByQ15(taps[i])) : i \in 1..Len(taps)}] :
        \A i \in 1..Len(taps) : c[i] \in CastInt16(ScaleByQ15(taps[i]))}

\* if (0 == decimate): BAD-DECIMATION
BadDecimation(i, d) == 0 = d

\* if (0 == decimate): BAD-INTERPOLATION (the test reads decimate)
BadInterpolation(i, d) == 0 = d

\* _usage prints the usage lines and calls exit(EXIT_SUCCESS).
Usage == "EXIT_SUCCESS"

\* What _set_options can meet before it opens the endpoints: nothing, a -h
\* option, a missing argument, no -F option, a filter file config_add
\* refuses, a failed config_new, config_get_float_array or TCALLOC.
OptionEvents == {"ok", "help", "no_src_dest", "no_filter_file", "bad_config",
                 "bug"}

\* polyphase_fir_new refuses a zero factor.
PolyphaseFirNewRefuses(i, d) == i = 0 \/ d = 0

\* The defaults: interpolate = 1, decimate = 1; a one-tap filter of 0.5.
DefaultTaps == <<(TapUnit * (2 ^ Q_15_SHIFT)) \div 2>>
DefaultCoeffs == CHOOSE c \in ConvertTaps(DefaultTaps) : TRUE

\* ------------------------------------------------------------------ Init
\* main() up to "Starting polyphase resampler": options parsed, resampler
\* constructed, SIGINT handler installed.
Init ==
    /\ pc = "start"
    /\ running \in BOOLEAN
    /\ dc_blocker \in BOOLEAN
    /\ ret = "A_OK"
    /\ exit_code = "EXIT_FAILURE"
    /\ op_ret = 0
    /\ read_buf = NULL
    /\ new_samples = 0
    /\ full = FALSE
    /\ output_buf = ZeroWindow
    /\ blck = DcInit
    /\ bufs = [i \in BufIds |-> NoBuf]
    /\ queue = <<>>
    /\ iter = 0
    /\ ever_not_full = FALSE
    /\ nreads = 0
    /\ npush = 0
    /\ nprocess = 0
    /\ nwrites = 0
    /\ nwrites_ok = 0
    /\ nsampled = 0
    /\ produced = <<>>
    /\ dc_in = <<>>
    /\ dc_prev = DcInit
    /\ napplied = 0
    /\ stream_in = <<>>
    /\ stream_out = <<>>
    /\ dc_ovf = FALSE
    /\ interpolate = 1
    /\ decimate = 1
    /\ filter_coeffs_f = DefaultTaps
    /\ filter_coeffs = DefaultCoeffs
    /\ panic_at = ""

\* --------------------------------------------------------------- actions
\* process_fir with the loop written as while (app_running()) { ... }: the
\* signal is sampled before the first iteration.
ProcessFirEntryWhile ==
    /\ pc = "start"
    /\ ret' = "A_OK"
    /\ blck' = DcInit
    /\ nsampled' = nsampled + 1
    /\ IF running THEN iter' = 1 /\ pc' = "loop"
                  ELSE iter' = iter /\ pc' = "done"
    /\ UNCHANGED <<running, dc_blocker, exit_code, op_ret, read_buf,
                   new_samples, full, output_buf, bufs, queue,
                   ever_not_full, nreads, npush, nprocess, nwrites,
                   nwrites_ok, produced>>
    /\ UNCHANGED harness_vars
    /\ UNCHANGED blocker_history
    /\ UNCHANGED option_vars
    /\ UNCHANGED panic_at

\* process_fir: ret = A_OK; the blocker is zeroed and its pole set.
ProcessFirEntry ==
    /\ pc = "start"
    /\ ret' = "A_OK"
    /\ blck' = DcInit
    /\ iter' = 1
    /\ pc' = "loop"
    /\ UNCHANGED <<running, dc_blocker, exit_code, op_ret, read_buf,
                   new_samples, full, output_buf, bufs, queue,
                   ever_not_full, nreads, npush, nprocess, nwrites,
                   nwrites_ok, nsampled, produced>>
    /\ UNCHANGED harness_vars
    /\ UNCHANGED blocker_history
    /\ UNCHANGED option_vars
    /\ UNCHANGED panic_at

\* the loop written as while (app_running()) { ... }
QueryFullWhileLoop ==
    /\ pc = "loop"
    /\ nsampled' = nsampled + 1
    /\ IF running
       THEN /\ op_ret' = 0 /\ read_buf' = NULL /\ new_samples' = 0
            /\ produced' = <<>>
            /\ \E ok \in BOOLEAN, f \in BOOLEAN :
                IF ok
                THEN /\ full' = f
                     /\ ever_not_full' = (ever_not_full \/ ~f)
                     /\ pc' = IF FillNeeded(f) THEN "alloc" ELSE "process"
                ELSE /\ full' = FALSE
                     /\ ever_not_full' = ever_not_full
                     /\ pc' = "abort"
       ELSE /\ pc' = "done"
            /\ UNCHANGED <<op_ret, read_buf, new_samples, produced, full,
                           ever_not_full>>
    /\ UNCHANGED <<running, dc_blocker, ret, exit_code, output_buf, blck,
                   bufs, queue, iter, nreads, npush, nprocess, nwrites,
                   nwrites_ok>>
    /\ UNCHANGED harness_vars
    /\ UNCHANGED blocker_history
    /\ UNCHANGED option_vars
    /\ panic_at' = IF pc' = "abort" THEN "polyphase_fir_full" ELSE panic_at

\* Top of an iteration: the locals are reset (full = false) and
\* TSL_BUG_IF_FAILED(polyphase_fir_full(pfir, &full)): the query answers, or
\* it fails and the process panics.
QueryFull ==
    /\ pc = "loop"
    /\ op_ret' = 0
    /\ read_buf' = NULL
    /\ new_samples' = 0
    /\ produced' = <<>>
    /\ \E ok \in BOOLEAN, f \in BOOLEAN :
        IF ok
        THEN /\ full' = f
             /\ ever_not_full' = (ever_not_full \/ ~f)
             /\ pc' = IF FillNeeded(f) THEN "alloc" ELSE "process"
        ELSE /\ full' = FALSE
             /\ ever_not_full' = ever_not_full
             /\ pc' = "abort"
    /\ UNCHANGED <<running, dc_blocker, ret, exit_code, output_buf, blck,
                   bufs, queue, iter, nreads, npush, nprocess, nwrites,
                   nwrites_ok, nsampled>>
    /\ UNCHANGED harness_vars
    /\ UNCHANGED blocker_history
    /\ UNCHANGED option_vars
    /\ panic_at' = IF pc' = "abort" THEN "polyphase_fir_full" ELSE panic_at

\* TSL_BUG_IF_FAILED(_alloc_sample_buf(&read_buf)): TCALLOC succeeds and the
\* buffer is filled in, or it fails and the process panics.
AllocSampleBuf ==
    /\ pc = "alloc"
    /\ \E ok \in BOOLEAN :
        IF ok
        THEN /\ bufs' = [bufs EXCEPT ![FreshId] = NewSampleBuf]
             /\ read_buf' = FreshId
             /\ pc' = "read"
        ELSE /\ pc' = "abort"
             /\ UNCHANGED <<bufs, read_buf>>
    /\ UNCHANGED <<running, dc_blocker, ret, exit_code, op_ret, new_samples,
                   full, output_buf, blck, queue, iter, ever_not_full,
                   nreads, npush, nprocess, nwrites, nwrites_ok, nsampled,
                   produced>>
    /\ UNCHANGED harness_vars
    /\ UNCHANGED blocker_history
    /\ UNCHANGED option_vars
    /\ panic_at' = IF pc' = "abort" THEN "_alloc_sample_buf" ELSE panic_at

\* if (0 >= (op_ret = read(in_fifo, data_buf, sample_buf_bytes))) goto done
ReadInput ==
    /\ pc = "read"
    /\ \E r \in ReadResults(bufs[read_buf].sample_buf_bytes) :
        /\ op_ret' = r
        /\ IF ReadFailed(r)
           THEN ret' = "A_E_INVAL" /\ pc' = "done"
           ELSE ret' = ret /\ pc' = "check_partial"
    /\ nreads' = nreads + 1
    /\ UNCHANGED <<running, dc_blocker, exit_code, read_buf, new_samples,
                   full, output_buf, blck, bufs, queue, iter, ever_not_full,
                   npush, nprocess, nwrites, nwrites_ok, nsampled, produced>>
    /\ UNCHANGED harness_vars
    /\ UNCHANGED blocker_history
    /\ UNCHANGED option_vars
    /\ UNCHANGED panic_at

\* TSL_BUG_ON((1 & op_ret) != 0); nr_samples = op_ret/sizeof(int16_t)
CheckPartialSample ==
    /\ pc = "check_partial"
    /\ IF PartialSample(op_ret)
       THEN pc' = "abort" /\ bufs' = bufs
       ELSE /\ bufs' = [bufs EXCEPT ![read_buf].nr_samples =
                                        BytesToSamples(op_ret)]
            /\ pc' = "push"
    /\ UNCHANGED <<running, dc_blocker, ret, exit_code, op_ret, read_buf,
                   new_samples, full, output_buf, blck, queue, iter,
                   ever_not_full, nreads, npush, nprocess, nwrites,
                   nwrites_ok, nsampled, produced>>
    /\ UNCHANGED harness_vars
    /\ UNCHANGED blocker_history
    /\ UNCHANGED option_vars
    /\ panic_at' = IF pc' = "abort" THEN "partial_sample" ELSE panic_at

\* the push followed by another fill in the same iteration
PushSampleBufRefill ==
    /\ pc = "push"
    /\ \E ok \in BOOLEAN :
        IF ok
        THEN /\ queue' = Append(queue, read_buf)
             /\ bufs' = [bufs EXCEPT ![read_buf].st = "pushed"]
             /\ pc' = "alloc"
        ELSE /\ pc' = "abort"
             /\ UNCHANGED <<queue, bufs>>
    /\ npush' = npush + 1
    /\ UNCHANGED <<running, dc_blocker, ret, exit_code, op_ret, read_buf,
                   new_samples, full, output_buf, blck, iter, ever_not_full,
                   nreads, nprocess, nwrites, nwrites_ok, nsampled,
                   produced>>
    /\ UNCHANGED harness_vars
    /\ UNCHANGED blocker_history
    /\ UNCHANGED option_vars
    /\ panic_at' = IF pc' = "abort" THEN "polyphase_fir_push_sample_buf" ELSE panic_at

\* TSL_BUG_IF_FAILED(polyphase_fir_push_sample_buf(pfir, read_buf)): the
\* resampler takes the buffer, or the call fails and the process panics with
\* the buffer neither queued nor released.
PushSampleBuf ==
    /\ pc = "push"
    /\ \E ok \in BOOLEAN :
        IF ok
        THEN /\ queue' = Append(queue, read_buf)
             /\ bufs' = [bufs EXCEPT ![read_buf].st = "pushed"]
             /\ pc' = "process"
        ELSE /\ pc' = "abort"
             /\ UNCHANGED <<queue, bufs>>
    /\ npush' = npush + 1
    /\ UNCHANGED <<running, dc_blocker, ret, exit_code, op_ret, read_buf,
                   new_samples, full, output_buf, blck, iter, ever_not_full,
                   nreads, nprocess, nwrites, nwrites_ok, nsampled,
                   produced>>
    /\ UNCHANGED harness_vars
    /\ UNCHANGED blocker_history
    /\ UNCHANGED option_vars
    /\ panic_at' = IF pc' = "abort" THEN "polyphase_fir_push_sample_buf" ELSE panic_at

\* TSL_BUG_IF_FAILED(polyphase_fir_process(pfir, output_buf, NR_SAMPLES,
\* &new_samples)): samples are produced, or the call fails and the process
\* panics.
Process ==
    /\ pc = "process"
    /\ \E ok \in BOOLEAN, vals \in ProcessResults :
        IF ok
        THEN /\ new_samples' = Len(vals)
             /\ produced' = vals
             /\ output_buf' = [i \in 1..MaxNew |->
                                 IF i <= Len(vals) THEN vals[i]
                                                   ELSE output_buf[i]]
             /\ pc' = "check_progress"
        ELSE /\ pc' = "abort"
             /\ UNCHANGED <<new_samples, produced, output_buf>>
    /\ nprocess' = nprocess + 1
    /\ UNCHANGED <<running, dc_blocker, ret, exit_code, op_ret, read_buf,
                   full, blck, bufs, queue, iter, ever_not_full, nreads,
                   npush, nwrites, nwrites_ok, nsampled>>
    /\ UNCHANGED harness_vars
    /\ UNCHANGED blocker_history
    /\ UNCHANGED option_vars
    /\ panic_at' = IF pc' = "abort" THEN "polyphase_fir_process" ELSE panic_at

\* TSL_BUG_ON(0 == new_samples)
CheckProgress ==
    /\ pc = "check_progress"
    /\ pc' = IF NoProgress(new_samples) THEN "abort" ELSE "dc_block"
    /\ UNCHANGED <<running, dc_blocker, ret, exit_code, op_ret, read_buf,
                   new_samples, full, output_buf, blck, bufs, queue, iter,
                   ever_not_full, nreads, npush, nprocess, nwrites,
                   nwrites_ok, nsampled, produced>>
    /\ UNCHANGED harness_vars
    /\ UNCHANGED blocker_history
    /\ UNCHANGED option_vars
    /\ panic_at' = IF pc' = "abort" THEN "no_progress" ELSE panic_at

\* if (true == dc_blocker) dc_blocker_apply(&blck, output_buf, new_samples)
DcBlock ==
    /\ pc = "dc_block"
    /\ IF DcBlockingEnabled(dc_blocker)
       THEN LET r == DcBlockerApply(blck, output_buf, new_samples)
            IN  blck' = r.b /\ output_buf' = r.samples
       ELSE UNCHANGED <<blck, output_buf>>
    /\ pc' = "write"
    /\ UNCHANGED <<running, dc_blocker, ret, exit_code, op_ret, read_buf,
                   new_samples, full, bufs, queue, iter, ever_not_full,
                   nreads, npush, nprocess, nwrites, nwrites_ok, nsampled,
                   produced>>
    /\ UNCHANGED harness_vars
    /\ UNCHANGED blocker_history
    /\ UNCHANGED option_vars
    /\ UNCHANGED panic_at

\* if (0 > (op_ret = write(out_fifo, output_buf, new_samples * 2))) goto done
WriteOutput ==
    /\ pc = "write"
    /\ \E r \in WriteResults(new_samples * SizeofInt16) :
        /\ op_ret' = r
        /\ IF WriteFailed(r)
           THEN ret' = "A_E_INVAL" /\ pc' = "done" /\ nwrites_ok' = nwrites_ok
           ELSE ret' = ret /\ pc' = "running" /\ nwrites_ok' = nwrites_ok + 1
    /\ nwrites' = nwrites + 1
    /\ UNCHANGED <<running, dc_blocker, exit_code, read_buf, new_samples,
                   full, output_buf, blck, bufs, queue, iter, ever_not_full,
                   nreads, npush, nprocess, nsampled, produced>>
    /\ UNCHANGED harness_vars
    /\ UNCHANGED blocker_history
    /\ UNCHANGED option_vars
    /\ UNCHANGED panic_at

\* } while (app_running());
AppRunning ==
    /\ pc = "running"
    /\ nsampled' = nsampled + 1
    /\ IF running
       THEN /\ iter < MaxIter
            /\ iter' = iter + 1
            /\ pc' = "loop"
       ELSE /\ iter' = iter
            /\ pc' = "done"
    /\ UNCHANGED <<running, dc_blocker, ret, exit_code, op_ret, read_buf,
                   new_samples, full, output_buf, blck, bufs, queue,
                   ever_not_full, nreads, npush, nprocess, nwrites,
                   nwrites_ok, produced>>
    /\ UNCHANGED harness_vars
    /\ UNCHANGED blocker_history
    /\ UNCHANGED option_vars
    /\ UNCHANGED panic_at

\* polyphase_fir_delete(&pfir): every buffer still queued is released
\* through its release callback.
ReleaseQueued(bs, q) ==
    [i \in BufIds |-> IF \E k \in 1..Len(q) : q[k] = i
                      THEN FreeSampleBuf(bs[i]) ELSE bs[i]]

\* main after process_fir returns: the exit status, then done:
MainExit ==
    /\ pc = "done"
    /\ exit_code' = IF ret = "A_OK" THEN "EXIT_SUCCESS" ELSE "EXIT_FAILURE"
    /\ bufs' = ReleaseQueued(bufs, queue)
    /\ queue' = <<>>
    /\ pc' = "exit"
    /\ UNCHANGED <<running, dc_blocker, ret, op_ret, read_buf, new_samples,
                   full, output_buf, blck, iter, ever_not_full, nreads,
                   npush, nprocess, nwrites, nwrites_ok, nsampled, produced>>
    /\ UNCHANGED harness_vars
    /\ UNCHANGED blocker_history
    /\ UNCHANGED option_vars
    /\ UNCHANGED panic_at

\* Where main is before app_sigint_catch has installed the handler.
BeforeHandler == {"main", "sigint_catch"}

\* SIGINT arrives once the handler is installed: app_running() reports false
\* from now on.
SigInt ==
    /\ running = TRUE
    /\ pc \notin BeforeHandler \cup {"exit", "abort", "killed"}
    /\ running' = FALSE
    /\ UNCHANGED <<pc, dc_blocker, ret, exit_code, op_ret, read_buf,
                   new_samples, full, output_buf, blck, bufs, queue, iter,
                   ever_not_full, nreads, npush, nprocess, nwrites,
                   nwrites_ok, nsampled, produced>>
    /\ UNCHANGED harness_vars
    /\ UNCHANGED blocker_history
    /\ UNCHANGED option_vars
    /\ UNCHANGED panic_at

\* ------------------------------------------------------ DC blocker alone
\* Blocks handed to dc_blocker_apply, as process_fir hands it the window.
DcBlocks == UNION {[1..n -> DcSampleVals] : n \in 1..MaxBlock}

\* process_fir's blocker, freshly zeroed, before any block.
InitDC ==
    /\ pc = "dc_block"
    /\ running = TRUE
    /\ dc_blocker = TRUE
    /\ ret = "A_OK"
    /\ exit_code = "EXIT_FAILURE"
    /\ op_ret = 0
    /\ read_buf = NULL
    /\ new_samples = 0
    /\ full = TRUE
    /\ output_buf = <<>>
    /\ blck = DcInit
    /\ bufs = [i \in BufIds |-> NoBuf]
    /\ queue = <<>>
    /\ iter = 1
    /\ ever_not_full = FALSE
    /\ nreads = 0
    /\ npush = 0
    /\ nprocess = 0
    /\ nwrites = 0
    /\ nwrites_ok = 0
    /\ nsampled = 0
    /\ produced = <<>>
    /\ dc_in = <<>>
    /\ dc_prev = DcInit
    /\ napplied = 0
    /\ stream_in = <<>>
    /\ stream_out = <<>>
    /\ dc_ovf = FALSE
    /\ interpolate = 1
    /\ decimate = 1
    /\ filter_coeffs_f = DefaultTaps
    /\ filter_coeffs = DefaultCoeffs
    /\ panic_at = ""

\* dc_blocker_apply(&blck, output_buf, new_samples) on the next block of the
\* stream; the blocker state carries over from block to block.
DcApplyBlock ==
    /\ pc = "dc_block"
    /\ napplied < MaxApply
    /\ \E blk \in DcBlocks :
        LET r == DcBlockerApply(blck, blk, Len(blk))
        IN  /\ dc_in' = blk
            /\ dc_prev' = blck
            /\ produced' = blk
            /\ new_samples' = Len(blk)
            /\ blck' = r.b
            /\ output_buf' = r.samples
            /\ stream_in' = stream_in \o blk
            /\ stream_out' = stream_out \o r.samples
            /\ dc_ovf' = (dc_ovf \/ DcApplyOverflows[blck, blk, 1, Len(blk)])
    /\ napplied' = napplied + 1
    /\ UNCHANGED <<pc, running, dc_blocker, ret, exit_code, op_ret, read_buf,
                   full, bufs, queue, iter, ever_not_full, nreads, npush,
                   nprocess, nwrites, nwrites_ok, nsampled>>
    /\ UNCHANGED option_vars
    /\ UNCHANGED panic_at

NextDC == DcApplyBlock

SpecDC == InitDC /\ [][NextDC]_vars

\* ------------------------------------------- DC blocker at full scale
\* The extremes of int16_t, and silence.
FullScaleVals == {0 - 32768, 0, 32767}
FullScaleBlocks == UNION {[1..n -> FullScaleVals] : n \in 1..MaxBlock}

\* The stream starts with a stretch at one extreme: dc_blocker_apply runs
\* over 2 ^ SettleLog samples of that level, then over one more.
DcApplyLevel ==
    /\ pc = "dc_block"
    /\ napplied = 0
    /\ \E s \in {0 - 32768, 32767} :
        \E r \in {DcRun[[b |-> blck, ovf |-> dc_ovf], s, SettleLog]} :
        LET last == DcStep[r.b, s]
        IN  /\ dc_in' = <<s>>
            /\ dc_prev' = r.b
            /\ produced' = <<s>>
            /\ new_samples' = 1
            /\ blck' = last.b
            /\ output_buf' = <<last.out>>
            /\ dc_ovf' = (r.ovf \/ DcStepOverflows[r.b, s])
    /\ napplied' = napplied + 1
    /\ UNCHANGED <<pc, running, dc_blocker, ret, exit_code, op_ret, read_buf,
                   full, bufs, queue, iter, ever_not_full, nreads, npush,
                   nprocess, nwrites, nwrites_ok, nsampled, stream_in,
                   stream_out>>
    /\ UNCHANGED option_vars
    /\ UNCHANGED panic_at

\* dc_blocker_apply(&blck, output_buf, new_samples) on a block of full-scale
\* samples.
DcApplyFullScale ==
    /\ pc = "dc_block"
    /\ napplied < MaxApply
    /\ \E blk \in FullScaleBlocks :
        LET r == DcBlockerApply(blck, blk, Len(blk))
        IN  /\ dc_in' = blk
            /\ dc_prev' = blck
            /\ produced' = blk
            /\ new_samples' = Len(blk)
            /\ blck' = r.b
            /\ output_buf' = r.samples
            /\ dc_ovf' = (dc_ovf \/ DcApplyOverflows[blck, blk, 1, Len(blk)])
    /\ napplied' = napplied + 1
    /\ UNCHANGED <<pc, running, dc_blocker, ret, exit_code, op_ret, read_buf,
                   full, bufs, queue, iter, ever_not_full, nreads, npush,
                   nprocess, nwrites, nwrites_ok, nsampled, stream_in,
                   stream_out>>
    /\ UNCHANGED option_vars
    /\ UNCHANGED panic_at

NextDCFull == DcApplyLevel \/ DcApplyFullScale

SpecDCFull == InitDC /\ [][NextDCFull]_vars

\* The steps of the program's one thread.
Step ==
    \/ ProcessFirEntry
    \/ QueryFull
    \/ AllocSampleBuf
    \/ ReadInput
    \/ CheckPartialSample
    \/ PushSampleBuf
    \/ Process
    \/ CheckProgress
    \/ DcBlock
    \/ WriteOutput
    \/ AppRunning
    \/ MainExit

Next == Step \/ SigInt

Spec == Init /\ [][Next]_vars

\* The steps that are the thread's own work or a library call that returns.
\* read() and write() are blocking calls with no timeout: they are left out,
\* an endpoint that stalls keeps the thread in the call for ever.
LocalStep ==
    \/ ProcessFirEntry
    \/ QueryFull
    \/ AllocSampleBuf
    \/ CheckPartialSample
    \/ PushSampleBuf
    \/ Process
    \/ CheckProgress
    \/ DcBlock
    \/ AppRunning
    \/ MainExit

\* The thread keeps stepping until it exits, panics or waits in read() or
\* write(); whether those calls return is up to the endpoints.
FairSpec == Spec /\ WF_vars(LocalStep)

\* ----------------------------------------------------- main from the top
\* main() at its first line: ret = EXIT_FAILURE.  The values argv gives -I,
\* -D, -b and the taps of the -F file are fixed from the start; the filter
\* file is not yet read.
InitMain ==
    /\ pc = "main"
    /\ running = TRUE
    /\ dc_blocker \in BOOLEAN
    /\ ret = "A_OK"
    /\ exit_code = "EXIT_FAILURE"
    /\ op_ret = 0
    /\ read_buf = NULL
    /\ new_samples = 0
    /\ full = FALSE
    /\ output_buf = ZeroWindow
    /\ blck = DcInit
    /\ bufs = [i \in BufIds |-> NoBuf]
    /\ queue = <<>>
    /\ iter = 0
    /\ ever_not_full = FALSE
    /\ nreads = 0
    /\ npush = 0
    /\ nprocess = 0
    /\ nwrites = 0
    /\ nwrites_ok = 0
    /\ nsampled = 0
    /\ produced = <<>>
    /\ dc_in = <<>>
    /\ dc_prev = DcInit
    /\ napplied = 0
    /\ stream_in = <<>>
    /\ stream_out = <<>>
    /\ dc_ovf = FALSE
    /\ interpolate \in 0..MaxFactor
    /\ decimate \in 0..MaxFactor
    /\ filter_coeffs_f \in TapFiles
    /\ filter_coeffs = <<>>
    /\ panic_at = ""

\* TSL_BUG_IF_FAILED(app_init("resampler", NULL))
AppInit ==
    /\ pc = "main"
    /\ \E ok \in BOOLEAN : pc' = IF ok THEN "sigint_catch" ELSE "abort"
    /\ panic_at' = IF pc' = "abort" THEN "app_init" ELSE panic_at
    /\ UNCHANGED <<running, dc_blocker, ret, exit_code, op_ret, read_buf,
                   new_samples, full, output_buf, blck, bufs, queue, iter,
                   ever_not_full, nreads, npush, nprocess, nwrites,
                   nwrites_ok, nsampled, produced>>
    /\ UNCHANGED harness_vars
    /\ UNCHANGED blocker_history
    /\ UNCHANGED option_vars

\* TSL_BUG_IF_FAILED(app_sigint_catch(NULL)): the SIGINT handler is installed
AppSigintCatch ==
    /\ pc = "sigint_catch"
    /\ \E ok \in BOOLEAN : pc' = IF ok THEN "set_options" ELSE "abort"
    /\ panic_at' = IF pc' = "abort" THEN "app_sigint_catch" ELSE panic_at
    /\ UNCHANGED <<running, dc_blocker, ret, exit_code, op_ret, read_buf,
                   new_samples, full, output_buf, blck, bufs, queue, iter,
                   ever_not_full, nreads, npush, nprocess, nwrites,
                   nwrites_ok, nsampled, produced>>
    /\ UNCHANGED harness_vars
    /\ UNCHANGED blocker_history
    /\ UNCHANGED option_vars

\* SIGINT before the handler is installed: the signal's default action ends
\* the process.
SigIntDefault ==
    /\ pc \in BeforeHandler
    /\ pc' = "killed"
    /\ UNCHANGED <<running, dc_blocker, ret, exit_code, op_ret, read_buf,
                   new_samples, full, output_buf, blck, bufs, queue, iter,
                   ever_not_full, nreads, npush, nprocess, nwrites,
                   nwrites_ok, nsampled, produced>>
    /\ UNCHANGED harness_vars
    /\ UNCHANGED blocker_history
    /\ UNCHANGED option_vars
    /\ UNCHANGED panic_at

\* _set_options up to the conversion loop: the getopt loop (the values of -I,
\* -D, -F and -b are in the state; -h calls _usage, which ends the process),
\* then the checks in their order, the coefficient load and the conversion.
\* exit() ends the process.
SetOptions ==
    /\ pc = "set_options"
    /\ \E ev \in OptionEvents, c \in ConvertTaps(filter_coeffs_f) :
        IF ev = "help"
        THEN pc' = "exit" /\ exit_code' = Usage
             /\ filter_coeffs' = filter_coeffs
        ELSE IF ev = "no_src_dest"
        THEN pc' = "exit" /\ exit_code' = "EXIT_FAILURE"
             /\ filter_coeffs' = filter_coeffs
        ELSE IF BadDecimation(interpolate, decimate)
        THEN pc' = "exit" /\ exit_code' = "EXIT_FAILURE"
             /\ filter_coeffs' = filter_coeffs
        ELSE IF BadInterpolation(interpolate, decimate)
        THEN pc' = "exit" /\ exit_code' = "EXIT_FAILURE"
             /\ filter_coeffs' = filter_coeffs
        ELSE IF ev \in {"no_filter_file", "bad_config"}
        THEN pc' = "exit" /\ exit_code' = "EXIT_FAILURE"
             /\ filter_coeffs' = filter_coeffs
        ELSE IF ev = "bug"
        THEN pc' = "abort" /\ exit_code' = exit_code
             /\ filter_coeffs' = filter_coeffs
        ELSE pc' = "open_in" /\ exit_code' = exit_code
             /\ filter_coeffs' = c
    /\ UNCHANGED <<running, dc_blocker, ret, op_ret, read_buf, new_samples,
                   full, output_buf, blck, bufs, queue, iter, ever_not_full,
                   nreads, npush, nprocess, nwrites, nwrites_ok, nsampled,
                   produced>>
    /\ panic_at' = IF pc' = "abort" THEN "_set_options" ELSE panic_at
    /\ UNCHANGED <<interpolate, decimate, filter_coeffs_f>>
    /\ UNCHANGED harness_vars
    /\ UNCHANGED blocker_history

\* if (0 > (in_fifo = open(argv[optind], O_RDONLY))) exit(EXIT_FAILURE): the
\* call returns a descriptor, or fails (a SIGINT handled during the wait
\* makes it fail) and the process exits.  On a FIFO the call waits for the
\* other end.
OpenInput ==
    /\ pc = "open_in"
    /\ \E ok \in BOOLEAN :
        IF ok THEN pc' = "open_out" /\ exit_code' = exit_code
              ELSE pc' = "exit" /\ exit_code' = "EXIT_FAILURE"
    /\ UNCHANGED <<running, dc_blocker, ret, op_ret, read_buf, new_samples,
                   full, output_buf, blck, bufs, queue, iter, ever_not_full,
                   nreads, npush, nprocess, nwrites, nwrites_ok, nsampled,
                   produced>>
    /\ UNCHANGED harness_vars
    /\ UNCHANGED blocker_history
    /\ UNCHANGED option_vars
    /\ UNCHANGED panic_at

\* if (0 > (out_fifo = open(argv[optind + 1], O_WRONLY))) exit(EXIT_FAILURE);
\* _set_options returns to main.
OpenOutput ==
    /\ pc = "open_out"
    /\ \E ok \in BOOLEAN :
        IF ok THEN pc' = "construct" /\ exit_code' = exit_code
              ELSE pc' = "exit" /\ exit_code' = "EXIT_FAILURE"
    /\ UNCHANGED <<running, dc_blocker, ret, op_ret, read_buf, new_samples,
                   full, output_buf, blck, bufs, queue, iter, ever_not_full,
                   nreads, npush, nprocess, nwrites, nwrites_ok, nsampled,
                   produced>>
    /\ UNCHANGED harness_vars
    /\ UNCHANGED blocker_history
    /\ UNCHANGED option_vars
    /\ UNCHANGED panic_at

\* TSL_BUG_IF_FAILED(polyphase_fir_new(&pfir, nr_filter_coeffs,
\* filter_coeffs, interpolate, decimate)): the resampler is built, or the
\* call fails and the process panics.
PolyphaseFirNew ==
    /\ pc = "construct"
    /\ \E ok \in BOOLEAN :
        pc' = IF ok /\ ~PolyphaseFirNewRefuses(interpolate, decimate)
              THEN "start" ELSE "abort"
    /\ UNCHANGED <<running, dc_blocker, ret, exit_code, op_ret, read_buf,
                   new_samples, full, output_buf, blck, bufs, queue, iter,
                   ever_not_full, nreads, npush, nprocess, nwrites,
                   nwrites_ok, nsampled, produced>>
    /\ UNCHANGED harness_vars
    /\ UNCHANGED blocker_history
    /\ UNCHANGED option_vars
    /\ panic_at' = IF pc' = "abort" THEN "polyphase_fir_new" ELSE panic_at

NextMain ==
    \/ AppInit
    \/ AppSigintCatch
    \/ SigIntDefault
    \/ SetOptions
    \/ OpenInput
    \/ OpenOutput
    \/ PolyphaseFirNew
    \/ Next

SpecMain == InitMain /\ [][NextMain]_vars

\* ---------------------------------------------------------------- claims
InFill == {"alloc", "read", "check_partial", "push"}
InIteration == InFill \cup {"process", "check_progress", "dc_block", "write"}
Terminated == {"exit", "abort", "killed"}

\* Where the thread waits for an endpoint: inside open(), read() or write().
BlockingCalls == {"open_in", "open_out", "read", "write"}

AllZero(seq) == \A i \in DOMAIN seq : seq[i] = 0

\* C1: while every polyphase_fir_full query has reported true, the loop has
\* acquired no buffer, made no read and no push (its only I/O is the write);
\* a run that leaves the loop with no failed write left it because the
\* keep-running signal was false, and returns success; and once the signal
\* is false the program terminates, unless the output endpoint stalls and
\* the thread waits in write() for ever.
C1_FullNeverReads ==
    /\ [](ever_not_full = FALSE =>
            /\ Allocated = {}
            /\ nreads = 0
            /\ npush = 0
            /\ read_buf = NULL
            /\ pc \notin InFill)
    /\ []((ever_not_full = FALSE /\ pc \in {"done", "exit"} /\ op_ret >= 0) =>
            /\ ret = "A_OK"
            /\ running = FALSE
            /\ (pc = "exit" => exit_code = "EXIT_SUCCESS"))
    /\ \/ ((ever_not_full = FALSE /\ running = FALSE)
              ~> (ever_not_full = TRUE \/ pc \in Terminated))
       \/ <>[](pc \in BlockingCalls)

\* C1 witness: a run of full-only iterations, stopped by the signal.
C1_Witness ==
    /\ ever_not_full = FALSE
    /\ pc = "exit"
    /\ ret = "A_OK"
    /\ exit_code = "EXIT_SUCCESS"
    /\ nwrites >= 2
    /\ nreads = 0

\* C2: an odd byte count from read panics at the partial-sample check: the
\* next step is the abort, with no push, process or write, and nothing
\* follows the abort; no odd count ever reaches the push.
C2_PartialSampleHalts ==
    /\ [][/\ (pc = "check_partial" /\ op_ret % 2 = 1 /\ pc' # pc) =>
                (/\ pc' = "abort"
                 /\ UNCHANGED <<bufs, queue, npush, nprocess, nwrites,
                                output_buf>>)
          /\ (pc = "abort") =>
                UNCHANGED <<pc, bufs, queue, nreads, npush, nprocess,
                            nwrites, output_buf>>]_vars
    /\ [](pc = "push" => op_ret % 2 = 0)

\* C2 witness: the panic after a read of capacity - 1 bytes, buffer unpushed.
C2_Witness ==
    /\ pc = "abort"
    /\ op_ret = SampleBufBytes - 1
    /\ read_buf # NULL
    /\ bufs[read_buf].st = "live"
    /\ npush < nreads

\* C3: a read that returns 0 or less ends the loop in the same step with
\* ret = A_E_INVAL; after the loop is left there is no read, push, process,
\* write or signal sample, and main exits with failure.
C3_ReadFailureEndsStream ==
    /\ [][/\ (pc = "read" /\ pc' # pc /\ op_ret' <= 0) =>
                (/\ pc' = "done"
                 /\ ret' = "A_E_INVAL"
                 /\ UNCHANGED <<queue, npush, nprocess, nwrites, nsampled>>)
          /\ (pc \in {"done", "exit"}) =>
                UNCHANGED <<ret, nreads, npush, nprocess, nwrites,
                            nsampled>>]_vars
    /\ []((pc = "exit" /\ ret = "A_E_INVAL") => exit_code = "EXIT_FAILURE")

\* C3 witness: end of file on the input in an iteration after the first.
C3_Witness ==
    /\ pc = "exit"
    /\ op_ret = 0
    /\ ret = "A_E_INVAL"
    /\ exit_code = "EXIT_FAILURE"
    /\ nreads = npush + 1
    /\ nwrites >= 1

\* C4: a write that returns a negative result ends the loop in the same step
\* with ret = A_E_INVAL and without sampling the keep-running signal; no
\* later read, push, process or write follows.
C4_WriteFailureEndsStream ==
    [][/\ (pc = "write" /\ pc' # pc /\ op_ret' < 0) =>
             (/\ pc' = "done"
              /\ ret' = "A_E_INVAL"
              /\ nsampled' = nsampled)
       /\ (pc \in {"done", "exit"} /\ ret = "A_E_INVAL") =>
             (/\ ret' = ret
              /\ UNCHANGED <<nreads, npush, nprocess, nwrites, nsampled>>)]_vars

\* C4 witness: the second write fails and main has exited.
C4_Witness ==
    /\ pc = "exit"
    /\ op_ret = -1
    /\ ret = "A_E_INVAL"
    /\ nwrites = nwrites_ok + 1
    /\ nwrites >= 2
    /\ nsampled = nwrites_ok

\* C5: app_running is called once per completed iteration, after its write
\* returned >= 0, and nowhere else; sampled false it leaves the loop with
\* ret = A_OK, sampled true it starts the next iteration; the loop is left
\* from inside an iteration only with a failure; and an iteration that has
\* started reaches the sample point unless it panics, fails or waits for
\* ever in read() or write(), whatever the signal does meanwhile.
C5_SampledAtBoundary ==
    /\ [](nsampled = IF pc = "running" THEN nwrites_ok - 1 ELSE nwrites_ok)
    /\ [][/\ (nsampled' # nsampled) =>
                (pc = "running" /\ nsampled' = nsampled + 1)
          /\ (pc = "running" /\ pc' # pc) =>
                (IF running THEN pc' = "loop"
                            ELSE pc' = "done" /\ ret' = "A_OK")
          /\ (pc \in InIteration /\ pc' = "done") => ret' = "A_E_INVAL"
          /\ (pc \in InIteration /\ pc' # pc) =>
                pc' \in InIteration \cup {"running", "done", "abort"}]_vars
    /\ \/ ((pc = "loop")
              ~> (pc = "running" \/ pc = "abort" \/ ret = "A_E_INVAL"))
       \/ <>[](pc \in BlockingCalls)

\* C5 witness: the signal is false in the middle of a later iteration, after
\* its FILL, and the iteration is at its write.
C5_Witness ==
    /\ pc = "write"
    /\ running = FALSE
    /\ nsampled >= 1
    /\ read_buf # NULL
    /\ new_samples > 0

\* C6: zero new samples from polyphase_fir_process panics at the next step,
\* with the blocker and the window untouched and no write; nothing follows
\* the panic; and every write is asked to write a positive number of bytes.
C6_NoProgressHalts ==
    [][/\ (pc = "check_progress" /\ new_samples = 0 /\ pc' # pc) =>
             (pc' = "abort" /\ UNCHANGED <<blck, output_buf, nwrites>>)
       /\ (pc = "abort") => UNCHANGED <<pc, blck, output_buf, nwrites>>
       /\ (nwrites' # nwrites) => new_samples * SizeofInt16 > 0]_vars

\* C6 witness: the panic in an iteration that pushed a buffer.
C6_Witness ==
    /\ pc = "abort"
    /\ panic_at = "no_progress"
    /\ new_samples = 0
    /\ nprocess >= 1
    /\ read_buf # NULL
    /\ bufs[read_buf].st = "pushed"
    /\ Len(queue) >= 1

\* C7: a buffer the loop acquired and still holds (neither pushed nor
\* released) is the current iteration's read_buf between the acquire and the
\* push; a pushed buffer is in the resampler's queue; after main's cleanup
\* every acquired buffer has been released.
C7_BufferPushedOrReleased ==
    /\ \A i \in Allocated :
          bufs[i].st = "live" =>
              (read_buf = i /\ pc \in {"read", "check_partial", "push", "abort"})
    /\ \A i \in Allocated :
          bufs[i].st = "pushed" => \E k \in 1..Len(queue) : queue[k] = i
    /\ pc = "exit" => \A i \in Allocated : bufs[i].st = "freed"

\* C8: the buffer _alloc_sample_buf returns has no valid samples, reference
\* count 0, room for NR_SAMPLES 16-bit samples, the release callback, and
\* the real (single-channel) 16-bit sample type.
C8_AcquiredBufferFresh ==
    pc = "read" =>
        bufs[read_buf] = [st |-> "live", refcount |-> 0,
                          sample_type |-> "REAL_INT_16",
                          sample_buf_bytes |-> NR_SAMPLES * SizeofInt16,
                          nr_samples |-> 0,
                          release |-> "_free_sample_buf"]

\* C9: every buffer holds nr_samples * 2 <= sample_buf_bytes; a buffer that
\* was pushed holds between 1 and NR_SAMPLES samples; and from the push to
\* the write of the same iteration nr_samples * 2 is the byte count read.
C9_ValidSamplesWithinCapacity ==
    /\ \A i \in Allocated :
          bufs[i].nr_samples * SizeofInt16 <= bufs[i].sample_buf_bytes
    /\ \A i \in Allocated :
          bufs[i].st \in {"pushed", "freed"} =>
              (1 <= bufs[i].nr_samples /\ bufs[i].nr_samples <= NR_SAMPLES)
    /\ (pc \in {"push", "process", "check_progress", "dc_block", "write"}
        /\ read_buf # NULL) =>
          (/\ bufs[read_buf].nr_samples * SizeofInt16 = op_ret
           /\ 1 <= op_ret
           /\ op_ret <= bufs[read_buf].sample_buf_bytes)

\* C9 witness: a full-capacity read, pushed with NR_SAMPLES valid samples.
C9_Witness ==
    /\ pc = "process"
    /\ read_buf # NULL
    /\ bufs[read_buf].st = "pushed"
    /\ op_ret = SampleBufBytes
    /\ bufs[read_buf].nr_samples = NR_SAMPLES

\* C10 as stated: dc_blocker_apply on an all-zero block, whatever the state
\* of the blocker, returns an all-zero block and leaves the state as it was.
C10_SilenceIsNoOp ==
    (napplied > 0 /\ AllZero(dc_in)) =>
        (AllZero(output_buf) /\ blck = dc_prev)

\* C10 amended: dc_blocker_apply on an all-zero block, from a blocker whose
\* previous input and previous output are 0 and whose accumulator is in
\* [0, 2^15) (the zero-initialised blocker is one), returns an all-zero
\* block and leaves the state as it was.
C10_SilenceFromRestIsNoOp ==
    (/\ napplied > 0
     /\ AllZero(dc_in)
     /\ dc_prev.x_n_1 = 0
     /\ dc_prev.y_n_1 = 0
     /\ 0 <= dc_prev.acc
     /\ dc_prev.acc < 2 ^ Q_15_SHIFT) =>
        (/\ Len(output_buf) = Len(dc_in)
         /\ AllZero(output_buf)
         /\ blck = dc_prev)

\* C10 witness: a second all-zero block of the longest length, applied to
\* the blocker the first one left zeroed.
C10_Witness ==
    /\ napplied >= 2
    /\ AllZero(dc_in)
    /\ Len(dc_in) = MaxBlock
    /\ dc_prev = DcInit
    /\ blck = DcInit

\* C11: after dc_blocker_apply the blocker holds the recurrence's values
\* (x_prev = sample * 2^15, acc = acc - x_prev_old + x_prev - pole * y_prev_old
\* for a one-sample block, y_prev = acc >> 15), the block has kept its length,
\* and the last sample stored back is the new y_prev, which fits int16_t.
C11_StoredSampleIsYPrev ==
    napplied > 0 =>
        /\ Len(output_buf) = Len(dc_in)
        /\ blck.x_n_1 = dc_in[Len(dc_in)] * (2 ^ Q_15_SHIFT)
        /\ (Len(dc_in) = 1 =>
              blck.acc = (dc_prev.acc - dc_prev.x_n_1)
                           + (blck.x_n_1 - dc_prev.p * dc_prev.y_n_1))
        /\ blck.y_n_1 = blck.acc \div (2 ^ Q_15_SHIFT)
        /\ FitsInt16(blck.y_n_1)
        /\ output_buf[Len(output_buf)] = blck.y_n_1

\* C12: with the pole 3, from the zeroed blocker, no int32_t operation of the
\* recurrence overflows on any stream of int16_t samples: the accumulator,
\* the promoted sample and pole * y_prev all stay in the int32_t range.
C12_NoOverflow ==
    /\ dc_ovf = FALSE
    /\ MinInt32 <= blck.acc /\ blck.acc <= MaxInt32
    /\ MinInt32 <= blck.x_n_1 /\ blck.x_n_1 <= MaxInt32
    /\ ~MulOverflows(blck.p, blck.y_n_1)

\* C12 witness: after a long stretch at -32768 the sample 32767 takes the
\* accumulator to within 2^15 of the largest int32_t, without overflow.
C12_Witness ==
    /\ napplied >= 2
    /\ dc_ovf = FALSE
    /\ dc_in[Len(dc_in)] = 32767
    /\ blck.acc > MaxInt32 - (2 ^ Q_15_SHIFT)

OutOfRangeTap(t) == ~FitsInt16(IntegralPart(ScaleByQ15(t)))

\* C13: with a tap in the filter file whose Q.15 value does not fit int16_t,
\* the program stops in _set_options: the resampler is never constructed,
\* the loop never entered, no sample processed.
C13_OutOfRangeTapRejected ==
    (\E i \in 1..Len(filter_coeffs_f) : OutOfRangeTap(filter_coeffs_f[i])) =>
        (pc \notin ({"construct", "start", "loop", "running", "done"}
                     \cup InIteration)
         /\ nprocess = 0)

\* round(): to the nearest integer, halves away from zero
RoundNearest(q) ==
    IF q.num >= 0 THEN (2 * q.num + q.den) \div (2 * q.den)
    ELSE 0 - ((2 * (0 - q.num) + q.den) \div (2 * q.den))

\* C14: once the taps are converted, every tap t whose rounded Q.15 value
\* fits int16_t is stored as round(t * 2^15).
C14_TapsRounded ==
    (Len(filter_coeffs) > 0) =>
        \A i \in 1..Len(filter_coeffs) :
            FitsInt16(RoundNearest(ScaleByQ15(filter_coeffs_f[i]))) =>
                filter_coeffs[i] = RoundNearest(ScaleByQ15(filter_coeffs_f[i]))

\* C15: with a zero decimation factor or a zero interpolation factor the
\* program never gets past _set_options: polyphase_fir_new is never called,
\* the loop is never entered, and there is no read and no write.
C15_ZeroFactorDetected ==
    (interpolate = 0 \/ decimate = 0) =>
        /\ pc \notin ({"construct", "start", "loop", "running", "done"}
                     \cup InIteration)
        /\ nreads = 0
        /\ nwrites = 0

\* The order of the calls of one iteration, and the ways out of the loop.
LoopOrder ==
    {<<"start", "loop">>, <<"loop", "alloc">>, <<"loop", "process">>,
     <<"loop", "abort">>, <<"alloc", "read">>, <<"alloc", "abort">>,
     <<"read", "check_partial">>, <<"read", "done">>,
     <<"check_partial", "push">>, <<"check_partial", "abort">>,
     <<"push", "process">>, <<"push", "abort">>,
     <<"process", "check_progress">>, <<"process", "abort">>,
     <<"check_progress", "dc_block">>, <<"check_progress", "abort">>,
     <<"dc_block", "write">>, <<"write", "running">>, <<"write", "done">>,
     <<"running", "loop">>, <<"running", "done">>, <<"done", "exit">>}

\* C16: an iteration makes at most one read, one push, one process and one
\* write, in the order is_full, (acquire, read, push), process, (DC block),
\* write; an iteration that completes has made exactly one write; a read
\* happens only when every earlier iteration has completed its write, so a
\* write lies between any two reads.
C16_OrderedIteration ==
    /\ [](/\ nreads <= iter
          /\ npush <= nreads
          /\ nprocess <= iter
          /\ nwrites <= nprocess)
    /\ [](pc = "running" =>
            (nprocess = iter /\ nwrites = iter /\ nwrites_ok = iter))
    /\ [][/\ (pc' # pc) => (<<pc, pc'>> \in LoopOrder)
          /\ (nreads' # nreads) =>
                (/\ pc = "read"
                 /\ nreads' = nreads + 1
                 /\ nreads < iter
                 /\ nprocess = iter - 1
                 /\ nwrites_ok = iter - 1)
          /\ (npush' # npush) =>
                (pc = "push" /\ npush' = npush + 1 /\ nprocess = iter - 1)
          /\ (nprocess' # nprocess) =>
                (/\ pc = "process"
                 /\ nprocess' = iter
                 /\ nwrites = iter - 1
                 /\ (full = FALSE =>
                        (read_buf # NULL /\ bufs[read_buf].st = "pushed")))
          /\ (nwrites' # nwrites) =>
                (pc = "write" /\ nwrites' = iter /\ nprocess = iter)]_vars

\* C16 witness: the second read, after the first iteration's write.
C16_Witness ==
    /\ pc = "check_partial"
    /\ iter = 2
    /\ nreads = 2
    /\ nwrites_ok = 1
    /\ npush = 1

\* C17: the DC block step, with the option on, replaces the first
\* new_samples entries of the window by the blocker's output for the samples
\* process produced, leaves every other entry alone and advances the blocker
\* by exactly those samples; with the option off it changes neither the
\* window nor the blocker, the blocker stays as zeroed, and the window at the
\* write is what process produced.  Nothing else touches the blocker.
C17_DcBlockExactlyNewSamples ==
    /\ [][/\ (pc = "dc_block" /\ pc' # pc) =>
                IF dc_blocker
                THEN /\ \A i \in 1..MaxNew :
                            i > new_samples => output_buf'[i] = output_buf[i]
                     /\ SubSeq(output_buf', 1, new_samples) =
                            DcApplyFrom[blck, produced, 1, new_samples].samples
                     /\ blck' = DcApplyFrom[blck, produced, 1, new_samples].b
                ELSE output_buf' = output_buf /\ blck' = blck
          /\ (blck' # blck) => (pc = "dc_block" /\ dc_blocker)
          /\ (output_buf' # output_buf) => pc \in {"process", "dc_block"}]_vars
    /\ [](~dc_blocker => blck = DcInit)
    /\ []((pc = "write" /\ ~dc_blocker) =>
            SubSeq(output_buf, 1, new_samples) = produced)

\* C17 witness: the second iteration produced one sample, 1; the blocker
\* turned it into 0 and left the second entry of the window, 1, from the
\* first iteration.
C17_Witness ==
    /\ pc = "write"
    /\ dc_blocker
    /\ iter = 2
    /\ new_samples = 1
    /\ produced = <<1>>
    /\ output_buf[1] = 0
    /\ output_buf[2] = 1

\* C18: the blocker process_fir zeroed is handed from one dc_blocker_apply
\* call to the next: at every moment the samples stored back so far, block
\* after block, are what one call on the whole stream so far gives from the
\* zeroed blocker, and the blocker is the one that call leaves.
C18_BlockwiseEqualsWhole ==
    /\ Len(stream_out) = Len(stream_in)
    /\ stream_out = DcApplyFrom[DcInit, stream_in, 1, Len(stream_in)].samples
    /\ blck = DcApplyFrom[DcInit, stream_in, 1, Len(stream_in)].b
    /\ (napplied > 0 =>
          (/\ SubSeq(stream_in, Len(stream_in) - Len(dc_in) + 1,
                     Len(stream_in)) = dc_in
           /\ SubSeq(stream_out, Len(stream_out) - Len(dc_in) + 1,
                     Len(stream_out)) = output_buf))

\* C18 witness: a zero sample of a later block comes out non-zero because of
\* what the earlier block left in the blocker.
C18_Witness ==
    /\ napplied >= 2
    /\ Len(stream_in) > Len(dc_in)
    /\ dc_in[Len(dc_in)] = 0
    /\ output_buf[Len(output_buf)] # 0
    /\ stream_out[Len(stream_out)] # 0

\* C19: when an iteration goes on after its write (the result was not
\* negative), the output endpoint has accepted all new_samples * 2 bytes.
C19_NoSampleLost ==
    pc = "running" => op_ret = new_samples * SizeofInt16

\* C20: the keep-running signal is not sampled before the first write has
\* succeeded; process_fir enters the loop whatever the signal says; a return
\* with success has made at least one process call and one write; and with
\* the signal false at entry the first iteration still runs to its write,
\* unless it panics, its read fails or it waits for ever in read() or
\* write().
C20_AtLeastOneIteration ==
    /\ [](nsampled >= 1 => (nprocess >= 1 /\ nwrites_ok >= 1))
    /\ []((pc \in {"done", "exit"} /\ ret = "A_OK") =>
            (nprocess >= 1 /\ nwrites_ok >= 1))
    /\ [][(pc = "start" /\ pc' # pc) => (pc' = "loop" /\ nsampled' = 0)]_vars
    /\ \/ ((pc = "start" /\ running = FALSE)
              ~> (nwrites >= 1 \/ pc = "abort" \/ ret = "A_E_INVAL"))
       \/ <>[](pc \in BlockingCalls)

\* C20 witness: the first iteration at its write, the signal false, not yet
\* sampled.
C20_Witness ==
    /\ pc = "write"
    /\ iter = 1
    /\ running = FALSE
    /\ nsampled = 0
    /\ nprocess = 1

====
